---- MODULE Spec2Model ----
(***************************************************************************)
(* Model of utils/measurement.py: the dataset sweep, the precision-recall  *)
(* sequence construction, the curve query and the mAP table of PR_func,    *)
(* and (second specification) the score table of create_score_mat.         *)
(*                                                                         *)
(* Boxes enter the model after decode/nms: per image and per class the     *)
(* inputs are the number of ground-truth boxes, the confidences of the     *)
(* predicted boxes and the IoU matrix cal_iou returns for them.            *)
(* Confidences are ranks 1..MaxConf (only their order is used by the       *)
(* code).  An IoU value v stands for v/IoUScale; iou_threshold is the      *)
(* default 0.5, so a value passes iff 2*v >= IoUScale.                     *)
(* Ratios are exact fractions <<n, d>> in lowest terms.                    *)
(***************************************************************************)
EXTENDS Integers, Sequences, FiniteSets, TLC

\* ---- bounds of the model ------------------------------------------------
class_num == 2
MaxImgs == 2
MaxP == 2
MaxPP == 2
MaxGts == 3
MaxDets == 3
MaxConf == 2
IoUScale == 2

Classes == 0..(class_num - 1)
\* Python's None, and a local that is not bound yet: the empty tuple;
\* a value v that may also be None is held as <<v>>.
None == <<>>

VARIABLES
    pc,            \* position in PR_func: "sweep", "build", "ready", "raised"
    num_imgs,      \* len(y_trues)
    max_per_img,   \* constructor argument: <<m>> or None
    i_img,         \* loop variable of the sweep
    class_i,       \* loop variable of the inner loops
    gts,           \* gts[c]: ground truths of class c seen so far
    detections,    \* detections[c]: rows <<conf, box_id, iou_mask>>
    det_img,       \* history: <<image, argmax>> of each row of detections[c]
    offsets,       \* history: offsets[c][i+1] = <<num_gts, num_P>> of image i
    n_pred,        \* local: len(xywhc_pred_class) of the last loop body
    stacked,       \* local: detection as stacked in the last loop body, before the limit
    num_TP,        \* local of __init__, None before its first assignment, else <<value>>
    precisions,    \* precisions[c]: sequence of fractions
    recalls,       \* recalls[c]: sequence of fractions
    err,           \* exception raised by __init__, or ""
    ret,           \* what the last __call__ or get_map was given and returned
    s_pc,          \* position in create_score_mat: "sweep", "done"
    s_img,         \* image loop variable of create_score_mat
    s_class,       \* class loop variable of create_score_mat
    denom_array,   \* denom_array[m][c] = <<PP-side denominator, P>>, per precision_mode m
    TP_array,      \* TP_array[m][c] = <<num_TPP, num_TP>>, per precision_mode m
    det_counts,    \* det_counts[m][c]
    in_true,       \* history: in_true[c], ground-truth boxes of class c given so far
    in_pred,       \* history: in_pred[c], predicted boxes of class c given so far
    score_table    \* score_table[m][c] = [precision, recall, F1, gts, dets]

prVars == <<pc, num_imgs, max_per_img, i_img, class_i, gts, detections, det_img,
            offsets, n_pred, stacked, num_TP, precisions, recalls, err, ret>>
scVars == <<s_pc, s_img, s_class, denom_array, TP_array, det_counts, in_true, in_pred,
            score_table>>
vars == <<prVars, scVars>>

\* ---- exact fractions ------------------------------------------------------
Abs(x) == IF x < 0 THEN -x ELSE x

RECURSIVE GCD(_, _)
GCD(a, b) == IF b = 0 THEN a ELSE GCD(b, a % b)

\* n/d for d > 0, in lowest terms
Frac(n, d) == LET g == GCD(Abs(n), d) IN <<n \div g, d \div g>>

Zero == <<0, 1>>
RAdd(x, y) == Frac(x[1] * y[2] + y[1] * x[2], x[2] * y[2])
RSub(x, y) == Frac(x[1] * y[2] - y[1] * x[2], x[2] * y[2])
RMul(x, y) == Frac(x[1] * y[1], x[2] * y[2])
RDivInt(x, k) == Frac(x[1], x[2] * k)
RLess(x, y) == x[1] * y[2] < y[1] * x[2]
RLeq(x, y) == x[1] * y[2] <= y[1] * x[2]

\* ---- array helpers ----------------------------------------------------------
Range(s) == {s[k] : k \in 1..Len(s)}

RECURSIVE SumSeq(_)
SumSeq(s) == IF s = <<>> THEN 0 ELSE Head(s) + SumSeq(Tail(s))

RECURSIVE SumOver(_, _)
SumOver(f, S) ==
    IF S = {} THEN 0
    ELSE LET x == CHOOSE y \in S : TRUE IN f[x] + SumOver(f, S \ {x})

MaxOf(S) == CHOOSE x \in S : \A y \in S : y <= x

\* a[-m:] of Python, for m >= 0
LastN(a, m) ==
    IF m = 0 \/ m >= Len(a) THEN a
    ELSE SubSeq(a, Len(a) - m + 1, Len(a))

Permute(a, p) == [k \in 1..Len(a) |-> a[p[k]]]

\* np.argsort(col)[::-1]: an index order that lists col in descending
\* order; the order among equal keys is not fixed by the sort.
SortIndex(col) ==
    LET n == Len(col) IN
    {p \in [1..n -> 1..n] :
        /\ \A a, b \in 1..n : a /= b => p[a] /= p[b]
        /\ \A k \in 1..(n - 1) : col[p[k]] >= col[p[k + 1]]}

\* ---- one image, one class: matching (lines 233-266) -------------------------
\* np.max(iou_scores, axis=0)[j]: best IoU of prediction j over the ground truths
BestIouPred(iou_scores, num_P, j) == MaxOf({iou_scores[<<g, j>>] : g \in 1..num_P})

\* np.max(iou_scores, axis=1)[g]: best IoU of ground truth g over the predictions
BestIouTrue(iou_scores, num_PP, g) == MaxOf({iou_scores[<<g, j>>] : j \in 1..num_PP})

\* best_iou >= iou_threshold, with iou_threshold = 0.5
IouPass(v) == 2 * v >= IoUScale

\* np.argmax(iou_scores, axis=0)[j], 0-based: the first ground truth attaining the maximum
ArgmaxTrue(iou_scores, num_P, j) ==
    LET best == BestIouPred(iou_scores, num_P, j)
    IN  (CHOOSE g \in 1..num_P :
            /\ iou_scores[<<g, j>>] = best
            /\ \A h \in 1..(g - 1) : iou_scores[<<h, j>>] /= best) - 1

BoxIdNoOffset(argmax, num_gts) == argmax

\* box_id_pred = np.argmax(iou_scores, axis=0) + num_gts
BoxId(argmax, num_gts) == argmax + num_gts

\* np.stack((conf_pred, box_id_pred, iou_mask), axis=1)
Detection(conf_pred, iou_scores, num_P, num_gts) ==
    [j \in 1..Len(conf_pred) |->
        <<conf_pred[j],
          BoxId(ArgmaxTrue(iou_scores, num_P, j), num_gts),
          IF IouPass(BestIouPred(iou_scores, num_P, j)) THEN 1 ELSE 0>>]

Column(a, col) == [k \in 1..Len(a) |-> a[k][col]]

\* max_per_img is not None and len(detection) > max_per_img
Limited(detection) == max_per_img /= None /\ Len(detection) > max_per_img[1]

TotalGts == SumOver(gts, Classes)
TotalDets == SumOver([c \in Classes |-> Len(detections[c])], Classes)
Min(a, b) == IF a <= b THEN a ELSE b

\* the iou matrices cal_iou can return for num_P ground truths and num_PP predictions
IouMatrices(num_P, num_PP) == [(1..num_P) \X (1..num_PP) -> 0..IoUScale]

\* Body of the loop over class_i for image i_img.
SweepStep ==
    /\ pc = "sweep"
    /\ \E num_P \in 0..Min(MaxP, MaxGts - TotalGts),
          num_PP \in 0..Min(MaxPP, MaxDets - TotalDets) :
       \E conf_pred \in [1..num_PP -> 1..MaxConf],
          iou_scores \in IouMatrices(num_P, num_PP) :
         LET num_gts == gts[class_i]
             detection == Detection(conf_pred, iou_scores, num_P, num_gts)
             origin == [j \in 1..num_PP |->
                          <<i_img, IF num_P > 0 THEN ArgmaxTrue(iou_scores, num_P, j) ELSE 0>>]
         IN
         /\ gts' = [gts EXCEPT ![class_i] = num_gts + num_P]
         /\ offsets' = [offsets EXCEPT ![class_i] = Append(@, <<num_gts, num_P>>)]
         /\ n_pred' = num_PP
         /\ stacked' = IF num_P > 0 /\ num_PP > 0 THEN detection ELSE <<>>
         /\ IF num_P > 0 /\ num_PP > 0
            THEN IF Limited(detection)
                 THEN \E sort_index \in SortIndex(Column(detection, 1)) :
                        LET kept == LastN(Permute(detection, sort_index), max_per_img[1])
                            keptImg == LastN(Permute(origin, sort_index), max_per_img[1])
                        IN /\ detections' = [detections EXCEPT ![class_i] = @ \o kept]
                           /\ det_img' = [det_img EXCEPT ![class_i] = @ \o keptImg]
                 ELSE /\ detections' = [detections EXCEPT ![class_i] = @ \o detection]
                      /\ det_img' = [det_img EXCEPT ![class_i] = @ \o origin]
            ELSE UNCHANGED <<detections, det_img>>
    /\ IF class_i + 1 < class_num
       THEN /\ class_i' = class_i + 1
            /\ UNCHANGED <<i_img, pc>>
       ELSE /\ class_i' = 0
            /\ i_img' = i_img + 1
            /\ pc' = IF i_img + 1 < num_imgs THEN "sweep" ELSE "build"
    /\ UNCHANGED <<num_imgs, max_per_img, num_TP, precisions, recalls, err, ret,
                   scVars>>

\* ---- precision-recall sequences (lines 268-293) -----------------------------
\* obj_mask of the prefix det[:k]: the ranks whose IoU flag is set
ObjMask(det, k) == {r \in 1..k : det[r][3] = 1}

NumTPOfLastRow(det, k) ==
    Cardinality({det[r][2] : r \in ObjMask(det, k) \cap {k}})

\* num_TP = len(set(det[:, 1][obj_mask])) for det = detection[:k]
NumTP(det, k) == Cardinality({det[r][2] : r \in ObjMask(det, k)})

\* num_TPP = obj_mask.sum()
NumTPP(det, k) == Cardinality(ObjMask(det, k))

\* num_FP = num_dets - num_TPP
NumFP(det, k) == k - NumTPP(det, k)

PrecisionOverDets(det, k) == Frac(NumTPP(det, k), NumTP(det, k) + NumFP(det, k))

\* num_TP/(num_TP + num_FP)
Precision(det, k) == Frac(NumTP(det, k), NumTP(det, k) + NumFP(det, k))

\* num_TP/num_gts
Recall(det, k, num_gts) == Frac(NumTP(det, k), num_gts)

\* Body of the loop over class_i that builds the sequences of one class.
BuildClass ==
    /\ pc = "build"
    /\ LET num_gts == gts[class_i]
           n == Len(detections[class_i])
       IN
       \E sort_index \in SortIndex(Column(detections[class_i], 1)) :
         LET detection == Permute(detections[class_i], sort_index)
             last_TP == IF n > 0 THEN <<NumTP(detection, n)>> ELSE num_TP
             pcs == [k \in 1..n |-> Precision(detection, k)]
             rcs == [k \in 1..n |-> Recall(detection, k, num_gts)]
         IN
         IF last_TP = None
         THEN \* recalls[class_i].append(num_TP/num_gts) with num_TP never assigned
              /\ pc' = "raised"
              /\ err' = "UnboundLocalError"
              /\ num_TP' = None
              /\ class_i' = 0
              /\ gts' = [c \in Classes |-> 0]
              /\ detections' = [c \in Classes |-> <<>>]
              /\ det_img' = [c \in Classes |-> <<>>]
              /\ offsets' = [c \in Classes |-> <<>>]
              /\ n_pred' = 0
              /\ stacked' = <<>>
              /\ precisions' = [c \in Classes |-> <<>>]
              /\ recalls' = [c \in Classes |-> <<>>]
         ELSE IF num_gts = 0
         THEN \* the same division with num_gts = 0
              /\ pc' = "raised"
              /\ err' = "ZeroDivisionError"
              /\ num_TP' = None
              /\ class_i' = 0
              /\ gts' = [c \in Classes |-> 0]
              /\ detections' = [c \in Classes |-> <<>>]
              /\ det_img' = [c \in Classes |-> <<>>]
              /\ offsets' = [c \in Classes |-> <<>>]
              /\ n_pred' = 0
              /\ stacked' = <<>>
              /\ precisions' = [c \in Classes |-> <<>>]
              /\ recalls' = [c \in Classes |-> <<>>]
         ELSE /\ precisions' = [precisions EXCEPT ![class_i] = Append(pcs, Zero)]
              /\ recalls' = [recalls EXCEPT ![class_i] =
                                Append(rcs, Frac(last_TP[1], num_gts))]
              /\ err' = err
              /\ IF class_i + 1 < class_num
                 THEN /\ class_i' = class_i + 1
                      /\ num_TP' = last_TP
                      /\ UNCHANGED <<pc, gts, detections, det_img, offsets,
                                     n_pred, stacked>>
                 ELSE \* __init__ returns: its locals are gone
                      /\ pc' = "ready"
                      /\ class_i' = 0
                      /\ num_TP' = None
                      /\ gts' = [c \in Classes |-> 0]
                      /\ detections' = [c \in Classes |-> <<>>]
                      /\ det_img' = [c \in Classes |-> <<>>]
                      /\ offsets' = [c \in Classes |-> <<>>]
                      /\ n_pred' = 0
                      /\ stacked' = <<>>
    /\ UNCHANGED <<num_imgs, max_per_img, i_img, ret, scVars>>

\* ---- curve query (lines 295-305) ----------------------------------------------
RMax(S) == CHOOSE x \in S : \A y \in S : RLeq(y, x)

PcIdxGeq(rcs, recall) == Cardinality({k \in 1..Len(rcs) : RLeq(recall, rcs[k])})

\* pc_idx = (recalls > recall).sum()
PcIdx(rcs, recall) == Cardinality({k \in 1..Len(rcs) : RLess(recall, rcs[k])})

\* self.precisions[class_idx] of a Python list: a negative index counts from the end
ListIndex(class_idx) == IF class_idx < 0 THEN class_idx + class_num ELSE class_idx

\* outcome of a call: an exception, or a returned value
Raise(e) == [exc |-> e, value |-> Zero]
Return(v) == [exc |-> "", value |-> v]

\* PR_func.__call__(recall, class_idx)
Query(recall, class_idx) ==
    IF class_idx >= class_num THEN Raise("IndexError")
    ELSE IF ListIndex(class_idx) \notin Classes THEN Raise("IndexError")
    ELSE LET pcs == precisions[ListIndex(class_idx)]
             rcs == recalls[ListIndex(class_idx)]
             pc_idx == PcIdx(rcs, recall)
         IN IF pc_idx = 0 THEN Return(Zero)
            ELSE Return(RMax(Range(LastN(pcs, pc_idx))))

\* ---- mAP table (lines 341-395) ------------------------------------------------
\* [0, 0.14, 0.29, 0.43, 0.57, 0.71, 1]
RecallList2012 ==
    <<Zero, Frac(14, 100), Frac(29, 100), Frac(43, 100), Frac(57, 100),
      Frac(71, 100), Frac(1, 1)>>

\* [i/10 for i in range(0, 11)]
RecallList2007 == [i \in 1..11 |-> Frac(i - 1, 10)]

RECURSIVE RSum(_)
RSum(s) == IF s = <<>> THEN Zero ELSE RAdd(Head(s), RSum(Tail(s)))

\* the backward scan that replaces each precision by the running maximum
RECURSIVE SmoothFrom(_, _, _)
SmoothFrom(pcs, i, max_pc) ==
    IF i = 0 THEN pcs
    ELSE IF RLess(max_pc, pcs[i])
         THEN SmoothFrom(pcs, i - 1, pcs[i])
         ELSE SmoothFrom([pcs EXCEPT ![i] = max_pc], i - 1, max_pc)

Smooth(pcs) == SmoothFrom(pcs, Len(pcs), Zero)

\* delta*value of one pair of neighbouring points
Trapezoid(pcs, rcs, i) ==
    RMul(RSub(rcs[i + 1], rcs[i]),
         RAdd(RDivInt(RSub(pcs[i + 1], pcs[i]), 2), pcs[i]))

AreaAP(pcs, rcs) == RSum([i \in 1..(Len(pcs) - 1) |-> Trapezoid(pcs, rcs, i)])

PointAP(recall_list, c) ==
    RDivInt(RSum([k \in 1..Len(recall_list) |-> Query(recall_list[k], c).value]),
            Len(recall_list))

Modes == {"voc2007", "voc2012", "area", "smootharea"}

\* aps of get_map(mode): one AP per class, then their mean
GetMap(mode) ==
    LET ap(c) ==
            IF mode = "area" THEN AreaAP(precisions[c], recalls[c])
            ELSE IF mode = "smootharea" THEN AreaAP(Smooth(precisions[c]), recalls[c])
            ELSE IF mode = "voc2012" THEN PointAP(RecallList2012, c)
            ELSE PointAP(RecallList2007, c)
        aps == [k \in 1..class_num |-> ap(k - 1)]
    IN  Append(aps, RDivInt(RSum(aps), Len(aps)))

RecallInputs == Range(RecallList2007) \cup Range(RecallList2012)
ClassIdxInputs == (0 - class_num - 1)..(class_num + 1)

Call ==
    /\ pc = "ready"
    /\ \E recall \in RecallInputs, class_idx \in ClassIdxInputs :
         ret' = [op |-> "call", recall |-> recall, class_idx |-> class_idx,
                 result |-> Query(recall, class_idx)]
    /\ UNCHANGED <<pc, num_imgs, max_per_img, i_img, class_i, gts, detections,
                   det_img, offsets, n_pred, stacked, num_TP, precisions, recalls,
                   err, scVars>>

CallGetMap ==
    /\ pc = "ready"
    /\ \E mode \in Modes :
         ret' = [op |-> "get_map", mode |-> mode, result |-> GetMap(mode)]
    /\ UNCHANGED <<pc, num_imgs, max_per_img, i_img, class_i, gts, detections,
                   det_img, offsets, n_pred, stacked, num_TP, precisions, recalls,
                   err, scVars>>

\* ---- create_score_mat (lines 64-143) ------------------------------------------
PrecisionModes == 0..1

\* num_TPP = sum(best_ious_pred >= iou_threshold)
CountTPP(iou_scores, num_P, num_PP) ==
    Cardinality({j \in 1..num_PP : IouPass(BestIouPred(iou_scores, num_P, j))})

\* num_TP = sum(best_ious_true >= iou_threshold)
CountTP(iou_scores, num_P, num_PP) ==
    Cardinality({g \in 1..num_P : IouPass(BestIouTrue(iou_scores, num_PP, g))})

DenomCorrectionAllTPP(precision_mode, n_TPP, n_TP) ==
    IF precision_mode = 1 THEN n_TPP ELSE 0

\* if precision_mode == 1: denom_array[class_i, 0] -= num_TPP - num_TP
DenomCorrection(precision_mode, n_TPP, n_TP) ==
    IF precision_mode = 1 THEN n_TPP - n_TP ELSE 0

\* if precision_mode == 1: num_TPP = num_TP
UsedTPP(precision_mode, n_TPP, n_TP) ==
    IF precision_mode = 1 THEN n_TP ELSE n_TPP

\* Body of the loop over class_i for image s_img, run for both precision
\* modes on the same boxes.
ScoreStep ==
    /\ s_pc = "sweep"
    /\ s_img < MaxImgs
    /\ \E num_P \in 0..MaxP, num_PP \in 0..MaxPP :
       \E iou_scores \in IouMatrices(num_P, num_PP) :
         LET matched == num_P > 0 /\ num_PP > 0
             n_TPP == IF matched THEN CountTPP(iou_scores, num_P, num_PP) ELSE 0
             n_TP == IF matched THEN CountTP(iou_scores, num_P, num_PP) ELSE 0
         IN
         /\ denom_array' = [m \in PrecisionModes |->
                [denom_array[m] EXCEPT ![s_class] =
                    <<@[1] + num_PP - DenomCorrection(m, n_TPP, n_TP),
                      @[2] + num_P>>]]
         /\ det_counts' = [m \in PrecisionModes |->
                [det_counts[m] EXCEPT ![s_class] = @ + num_PP]]
         /\ TP_array' = [m \in PrecisionModes |->
                [TP_array[m] EXCEPT ![s_class] =
                    <<@[1] + UsedTPP(m, n_TPP, n_TP), @[2] + n_TP>>]]
         /\ in_true' = [in_true EXCEPT ![s_class] = @ + num_P]
         /\ in_pred' = [in_pred EXCEPT ![s_class] = @ + num_PP]
    /\ IF s_class + 1 < class_num
       THEN s_class' = s_class + 1 /\ s_img' = s_img
       ELSE s_class' = 0 /\ s_img' = s_img + 1
    /\ UNCHANGED <<s_pc, score_table, prVars>>

TrueDivideZeroForNaN(a, b) ==
    IF b = 0 THEN [kind |-> "num", value |-> Zero]
    ELSE [kind |-> "num", value |-> Frac(a, b)]

\* np.true_divide(a, b) on non-negative counts: 0/0 is nan, a/0 is inf
TrueDivide(a, b) ==
    IF b = 0 THEN [kind |-> IF a = 0 THEN "nan" ELSE "inf", value |-> Zero]
    ELSE [kind |-> "num", value |-> Frac(a, b)]

\* (2*precision*recall)/(precision + recall)
F1Score(precision, recall) ==
    IF precision.kind /= "num" \/ recall.kind /= "num"
    THEN [kind |-> "nan", value |-> Zero]
    ELSE LET top == RMul(<<2, 1>>, RMul(precision.value, recall.value))
             bottom == RAdd(precision.value, recall.value)
         IN IF bottom[1] = 0 THEN [kind |-> "nan", value |-> Zero]
            ELSE [kind |-> "num", value |-> Frac(top[1] * bottom[2], top[2] * bottom[1])]

ScoreRow(m, c) ==
    LET precision == TrueDivide(TP_array[m][c][1], denom_array[m][c][1])
        recall == TrueDivide(TP_array[m][c][2], denom_array[m][c][2])
    IN [precision |-> precision, recall |-> recall,
        F1 |-> F1Score(precision, recall),
        gts |-> denom_array[m][c][2], dets |-> det_counts[m][c]]

\* The end of the image loop: the table is built and returned.
ScoreFinish ==
    /\ s_pc = "sweep"
    /\ s_class = 0
    /\ s_pc' = "done"
    /\ score_table' = [m \in PrecisionModes |-> [c \in Classes |-> ScoreRow(m, c)]]
    /\ UNCHANGED <<s_img, s_class, denom_array, TP_array, det_counts, in_true,
                   in_pred, prVars>>

\* ---- PR_func: specification ---------------------------------------------------
ScoreInit ==
    /\ s_pc = "sweep"
    /\ s_img = 0
    /\ s_class = 0
    /\ denom_array = [m \in 0..1 |-> [c \in Classes |-> <<0, 0>>]]
    /\ TP_array = [m \in 0..1 |-> [c \in Classes |-> <<0, 0>>]]
    /\ det_counts = [m \in 0..1 |-> [c \in Classes |-> 0]]
    /\ in_true = [c \in Classes |-> 0]
    /\ in_pred = [c \in Classes |-> 0]
    /\ score_table = <<>>

\* the locals of PR_func.__init__ as the sweep starts, for n images and limit m
PRStart(n, m) ==
    /\ num_imgs = n
    /\ max_per_img = m
    /\ pc = IF num_imgs = 0 THEN "build" ELSE "sweep"
    /\ i_img = 0
    /\ class_i = 0
    /\ gts = [c \in Classes |-> 0]
    /\ detections = [c \in Classes |-> <<>>]
    /\ det_img = [c \in Classes |-> <<>>]
    /\ offsets = [c \in Classes |-> <<>>]
    /\ n_pred = 0
    /\ stacked = <<>>
    /\ num_TP = None
    /\ precisions = [c \in Classes |-> <<>>]
    /\ recalls = [c \in Classes |-> <<>>]
    /\ err = ""
    /\ ret = [op |-> "none"]

Init ==
    /\ \E n \in 0..MaxImgs, m \in {<<k>> : k \in 1..(MaxPP - 1)} \cup {None} : PRStart(n, m)
    /\ ScoreInit

Next == SweepStep \/ BuildClass \/ Call \/ CallGetMap

Spec == Init /\ [][Next]_vars

\* ---- create_score_mat: specification --------------------------------------------
NextScore == ScoreStep \/ ScoreFinish

InitScore == PRStart(0, None) /\ ScoreInit

SpecScore == InitScore /\ [][NextScore]_vars

\* ==== properties ==================================================================

\* rows appended to detections[c] by the step being taken
Appended(c) == SubSeq(detections'[c], Len(detections[c]) + 1, Len(detections'[c]))

IsPermutationOf(a, b) ==
    /\ Len(a) = Len(b)
    /\ \E q \in [1..Len(a) -> 1..Len(a)] :
         /\ \A x, y \in 1..Len(a) : x /= y => q[x] /= q[y]
         /\ \A k \in 1..Len(a) : a[k] = b[q[k]]

\* C1: whenever one loop body stacks more than max_per_img records, the rows it
\* appends to the class's accumulator are exactly the max_per_img records of
\* highest confidence.
C1_TopConfidenceKept ==
    [][(pc = "sweep" /\ max_per_img /= None /\ Len(stacked') > max_per_img[1]) =>
          \E p \in SortIndex(Column(stacked', 1)) :
             IsPermutationOf(Appended(class_i),
                             SubSeq(Permute(stacked', p), 1, max_per_img[1]))]_vars

\* C2: for every class that has real entries, the recalls never decrease along
\* the ranks and the sentinel repeats the recall of the last real entry.
C2_RecallMonotone ==
    \A c \in Classes :
        Len(recalls[c]) >= 2 =>
            /\ \A k \in 1..(Len(recalls[c]) - 1) : RLeq(recalls[c][k], recalls[c][k + 1])
            /\ recalls[c][Len(recalls[c])] = recalls[c][Len(recalls[c]) - 1]

\* a built curve with three real entries whose recall rises and then stays
C2_Witness ==
    /\ pc = "ready"
    /\ \E c \in Classes :
         /\ Len(recalls[c]) = 4
         /\ RLess(recalls[c][1], recalls[c][2])
         /\ recalls[c][2] = recalls[c][3]

BothDefined(c) ==
    /\ score_table[0][c].precision.kind = "num"
    /\ score_table[1][c].precision.kind = "num"

\* C3 as stated: on the same boxes the precision of precision_mode 1 never
\* exceeds the precision of precision_mode 0, for every class where both are
\* defined.
C3_Mode1NeverAbove ==
    s_pc = "done" =>
        \A c \in Classes :
            BothDefined(c) =>
                RLeq(score_table[1][c].precision.value, score_table[0][c].precision.value)

\* C3 amended: the precision of mode 1 does not exceed that of mode 0 for every
\* class whose accumulated num_TP (ground truths with a passing prediction) does
\* not exceed its accumulated num_TPP (predictions with a passing ground truth).
C3_Mode1NotAboveWhenTPAtMostTPP ==
    s_pc = "done" =>
        \A c \in Classes :
            (BothDefined(c) /\ TP_array[0][c][2] <= TP_array[0][c][1]) =>
                RLeq(score_table[1][c].precision.value, score_table[0][c].precision.value)

\* duplicate predictions of one ground truth next to a false positive: mode 1 is
\* strictly below mode 0
C3_Witness ==
    /\ s_pc = "done"
    /\ \E c \in Classes :
         /\ BothDefined(c)
         /\ TP_array[0][c][2] < TP_array[0][c][1]
         /\ RLess(score_table[1][c].precision.value, score_table[0][c].precision.value)

\* ranks of the class's sequence whose recall exceeds the target
Above(c, recall) == {k \in 1..Len(recalls[c]) : RLess(recall, recalls[c][k])}
FirstAbove(c, recall) == CHOOSE k \in Above(c, recall) : \A j \in Above(c, recall) : k <= j

\* C4: for a valid class index the query returns the largest precision from the
\* first entry whose recall exceeds the target to the end of the sequence, and 0
\* when no entry exceeds it.
C4_QueryIsSuffixMax ==
    (ret.op = "call" /\ ret.class_idx \in Classes) =>
        /\ ret.result.exc = ""
        /\ IF Above(ret.class_idx, ret.recall) = {}
           THEN ret.result.value = Zero
           ELSE ret.result.value =
                   RMax({precisions[ret.class_idx][k] :
                           k \in FirstAbove(ret.class_idx, ret.recall)
                                    ..Len(precisions[ret.class_idx])})

\* a query whose suffix starts after rank 1 and whose maximum lies beyond the
\* first entry of the suffix
C4_Witness ==
    /\ ret.op = "call"
    /\ ret.class_idx \in Classes
    /\ Above(ret.class_idx, ret.recall) /= {}
    /\ FirstAbove(ret.class_idx, ret.recall) > 1
    /\ RLess(precisions[ret.class_idx][FirstAbove(ret.class_idx, ret.recall)],
             ret.result.value)

\* C5: a query with class_idx outside [0, class_num) raises an index error and
\* returns no precision.
C5_OutOfRangeRaises ==
    (ret.op = "call" /\ ret.class_idx \notin Classes) => ret.result.exc = "IndexError"

\* C6: building the sequences of a class without accumulated detections does not
\* raise and yields only the sentinel, with precision 0 and recall 0.
C6_EmptyClassSentinel ==
    [][(pc = "build" /\ detections[class_i] = <<>>) =>
          /\ pc' /= "raised"
          /\ precisions'[class_i] = <<Zero>>
          /\ recalls'[class_i] = <<Zero>>]_vars

\* C7: a class with ground truths and no predictions over the whole dataset gets
\* precision nan, recall 0, gts = its ground truths and dets = 0.
C7_NoPredictionsRow ==
    s_pc = "done" =>
        \A m \in PrecisionModes, c \in Classes :
            (in_true[c] >= 1 /\ in_pred[c] = 0) =>
                /\ score_table[m][c].precision.kind = "nan"
                /\ score_table[m][c].recall = [kind |-> "num", value |-> Zero]
                /\ score_table[m][c].gts = in_true[c]
                /\ score_table[m][c].dets = 0

\* two images, a class with ground truths in the dataset and never a prediction
C7_Witness ==
    /\ s_pc = "done"
    /\ s_img >= 2
    /\ \E c \in Classes : in_true[c] >= 2 /\ in_pred[c] = 0

InUnit(x) == RLeq(Zero, x) /\ RLeq(x, <<1, 1>>)

\* C8: every stored precision is a ratio in [0, 1], and every AP and the mAP of
\* the modes voc2007 and voc2012 lie in [0, 1].
C8_PrecisionAndAPInUnit ==
    /\ \A c \in Classes : \A k \in 1..Len(precisions[c]) : InUnit(precisions[c][k])
    /\ (ret.op = "get_map" /\ ret.mode \in {"voc2007", "voc2012"}) =>
          \A k \in 1..Len(ret.result) : InUnit(ret.result[k])

\* every class has detections (hence ground truths) and the mAP is strictly
\* between 0 and 1
C8_Witness ==
    /\ pc = "ready"
    /\ ret.op = "get_map"
    /\ ret.mode = "voc2007"
    /\ \A c \in Classes : Len(precisions[c]) >= 2
    /\ RLess(Zero, ret.result[class_num + 1])
    /\ RLess(ret.result[class_num + 1], <<1, 1>>)

\* C9: unless the limit applies, one loop body appends one record per predicted
\* box of the class, whether or not the image has a ground truth of that class.
C9_OneRecordPerPrediction ==
    [][(pc = "sweep" /\ ~(max_per_img /= None /\ n_pred' > max_per_img[1])) =>
          Len(detections'[class_i]) = Len(detections[class_i]) + n_pred']_vars

\* ground truths of class c in the images before image i
GtsBefore(c, i) == SumSeq([j \in 1..i |-> offsets[c][j][2]])

\* C10: every id of image i lies in [offset_i, offset_i + n_i), offset_i being
\* the ground truths of the class in earlier images, and two records of a class
\* share an id only if they come from the same image and the same ground truth.
C10_IdsDoNotCollide ==
    \A c \in Classes :
        /\ \A k \in 1..Len(detections[c]) :
              LET i == det_img[c][k][1]
                  offset == offsets[c][i + 1][1]
                  n == offsets[c][i + 1][2]
              IN /\ offset = GtsBefore(c, i)
                 /\ offset <= detections[c][k][2]
                 /\ detections[c][k][2] < offset + n
                 /\ detections[c][k][2] = offset + det_img[c][k][2]
        /\ \A k1, k2 \in 1..Len(detections[c]) :
              detections[c][k1][2] = detections[c][k2][2] => det_img[c][k1] = det_img[c][k2]

\* records of two images in one class, both matched to the first ground truth of
\* their image
C10_Witness ==
    \E c \in Classes : \E k1, k2 \in 1..Len(detections[c]) :
        /\ det_img[c][k1][1] /= det_img[c][k2][1]
        /\ det_img[c][k1][2] = det_img[c][k2][2]

====
